---- MODULE Spec2Model ----
(***************************************************************************)
(* A model of the incremental vector index of the RAG service:             *)
(*   app/utils.py          chunk_text                                      *)
(*   app/vectore_store.py  VectorStore (faiss IndexIDMap over IndexFlatL2) *)
(* Texts are sequences of one-character strings; a vector is a pair of     *)
(* integers; a file on disk is absent, torn (a write that failed partway)  *)
(* or holds the serialized data.                                           *)
(***************************************************************************)
EXTENDS Integers, Sequences, FiniteSets, TLC

VARIABLES
    index,               \* self.index: None or the IndexIDMap's entries
    metadata,            \* self.metadata: doc_id -> record
    doc_id_by_faiss_id,  \* self.doc_id_by_faiss_id: faiss id -> doc_id
    index_file,          \* the file at index_path
    meta_file,           \* the file at meta_path
    last,                \* the last call: its outcome, and its arguments and result
                         \* where it returned normally
    max_assigned,        \* history: the greatest id _generate_faiss_ids has returned
    faults,              \* history: how many times save() has failed
    upserts,             \* history: how many upserts have reached the mutation
    threads,             \* the threads inside upsert on the one store: where each
                         \* stands, and its local variables
    reader,              \* a thread inside search on the same store
    chunker,             \* a call of chunk_text: its arguments and its locals
    rag,                 \* the last call of RAGPipeline.run: what it built and returned
    positional,          \* the VectorStore of app/updated_vector_store.py and its files
    sync,                \* ingest_changed_files: the commit file and the call's locals
    stores               \* each of two ingestion requests: its own VectorStore and its locals

vars == <<index, metadata, doc_id_by_faiss_id, index_file, meta_file, last, max_assigned,
          faults, upserts, threads, reader, chunker, rag, positional, sync, stores>>

---------------------------------------------------------------------------
(* Bounds of the model *)

\* words in the long document; more than DEFAULT_MAX_TOKENS - DEFAULT_OVERLAP,
\* so that chunk_text cuts it into two chunks
LongDocWords == 401
\* at most this many upserts reach the mutation in a behaviour
MaxUpserts == 2
\* save() fails at most this many times in a behaviour
MaxFaults == 1

\* chunk_text is called on every text of at most this many characters
MaxTextLen == 5
\* ... with max_tokens in 1..MaxTokensArg and overlap in 0..MaxTokensArg + 1
MaxTokensArg == 3
\* the loop of chunk_text is followed for at most this many iterations; more
\* than any text of MaxTextLen characters has words
MaxChunks == 4

\* a commit changes at most this many files
MaxFiles == 2
\* and at most this many when two requests run side by side
MaxRequestFiles == 1

(* Program constants *)
DEFAULT_MAX_TOKENS == 500
DEFAULT_OVERLAP == 100
DEFAULT_K == 5
DIM == 2

DocIds == {"d1", "d2"}
\* the bytes found at file_path when upsert hashes it; NoFile: open() raises
FileVersions == {"v1", "v2"}
NoFile == "absent"

Queries == {"a"}
Ks == {2, DEFAULT_K}

Range(s) == {s[i] : i \in DOMAIN s}

---------------------------------------------------------------------------
(* app/utils.py: chunk_text *)

\* text[i], for i in 1..Len(text)
CharAt(text, i) == SubSeq(text, i, i)

\* str.split(): the maximal runs of non-whitespace characters, in order
RECURSIVE split(_)
split(text) ==
    IF Len(text) = 0 THEN <<>>
    ELSE IF Len(text) = 1 THEN (IF text = " " THEN <<>> ELSE <<text>>)
    ELSE LET mid == Len(text) \div 2
             l == split(SubSeq(text, 1, mid))
             r == split(SubSeq(text, mid + 1, Len(text)))
         IN  IF CharAt(text, mid) # " " /\ CharAt(text, mid + 1) # " "
             THEN SubSeq(l, 1, Len(l) - 1) \o <<l[Len(l)] \o r[1]>> \o Tail(r)
             ELSE l \o r

\* " ".join(words)
RECURSIVE join(_)
join(words) ==
    IF Len(words) = 0 THEN ""
    ELSE IF Len(words) = 1 THEN words[1]
    ELSE LET mid == Len(words) \div 2
         IN  join(SubSeq(words, 1, mid)) \o " " \o join(SubSeq(words, mid + 1, Len(words)))

\* a slice bound that is always the end of the list
SliceBound_at_end(i, n) == n

\* a slice bound as Python reads it: negative ones count from the end, and all
\* are clamped to 0..n
SliceBound(i, n) ==
    IF i < 0 THEN (IF i + n < 0 THEN 0 ELSE i + n) ELSE (IF i > n THEN n ELSE i)

\* words[start:end] that leaves out the last word of the slice
Slice_without_last(words, start, end) ==
    SubSeq(words, SliceBound(start, Len(words)) + 1, SliceBound(end, Len(words)) - 1)

\* words[start:end]
Slice(words, start, end) ==
    SubSeq(words, SliceBound(start, Len(words)) + 1, SliceBound(end, Len(words)))

RECURSIVE chunk_loop(_, _, _, _, _)
chunk_loop(words, max_tokens, overlap, start, chunks) ==
    IF start < Len(words)
    THEN chunk_loop(words, max_tokens, overlap, start + (max_tokens - overlap),
                    Append(chunks, join(Slice(words, start, start + max_tokens))))
    ELSE chunks

chunk_text(text, max_tokens, overlap) ==
    chunk_loop(split(text), max_tokens, overlap, 0, <<>>)

\* The contents the model upserts: one without words, one of two words (one
\* chunk), one of LongDocWords words (two chunks)
EmptyDoc == " "
ShortDoc == " b  b"
LongDoc == join([i \in 1..LongDocWords |-> "a"])
Contents == {EmptyDoc, ShortDoc, LongDoc}

\* chunk_text(content) with the default arguments, tabulated over Contents
chunk_text_default[c \in Contents] == chunk_text(c, DEFAULT_MAX_TOKENS, DEFAULT_OVERLAP)

---------------------------------------------------------------------------
(* The embedding model and the faiss index *)

Count(text, ch) == Cardinality({i \in 1..Len(text) : CharAt(text, i) = ch})

\* self.model.encode of one text: a deterministic vector of DIM numbers
encode_one(text) == <<Count(text, "a"), Count(text, "b")>>

encode_default[c \in Contents] ==
    [i \in DOMAIN chunk_text_default[c] |-> encode_one(chunk_text_default[c][i])]

encode_query[q \in Queries] == encode_one(q)

NoneIndex == [kind |-> "None", entries |-> <<>>]
\* faiss.IndexIDMap(faiss.IndexFlatL2(dim))
NewIndex == [kind |-> "IndexIDMap", entries |-> <<>>]

ntotal(idx) == Len(idx.entries)

\* an add that loses the last vector
add_with_ids_dropping_last(idx, vecs, ids) ==
    [idx EXCEPT !.entries = @ \o [i \in 1..(Len(ids) - 1) |-> [id |-> ids[i], vec |-> vecs[i]]]]

add_with_ids(idx, vecs, ids) ==
    [idx EXCEPT !.entries = @ \o [i \in DOMAIN ids |-> [id |-> ids[i], vec |-> vecs[i]]]]

L2(u, v) == (u[1] - v[1]) * (u[1] - v[1]) + (u[2] - v[2]) * (u[2] - v[2])

\* position p of the index is nearer to q than position r (ties: storage order)
Nearer(idx, q, p, r) ==
    LET dp == L2(idx.entries[p].vec, q)
        dr == L2(idx.entries[r].vec, q)
    IN  dp < dr \/ (dp = dr /\ p < r)

\* the position of the index with exactly n positions nearer to q
NthNearest(idx, q, n) ==
    CHOOSE p \in DOMAIN idx.entries :
        Cardinality({r \in DOMAIN idx.entries : Nearer(idx, q, r, p)}) = n

\* a search that pads with the nearest label instead of -1
index_search_repeating(idx, q, k) ==
    [n \in 1..k |-> IF ntotal(idx) = 0 THEN -1
                    ELSE idx.entries[NthNearest(idx, q, IF n <= ntotal(idx) THEN n - 1 ELSE 0)].id]

\* index.search(q, k): the labels I[0], nearest first, padded with -1 to length k
index_search(idx, q, k) ==
    [n \in 1..k |-> IF n <= ntotal(idx) THEN idx.entries[NthNearest(idx, q, n - 1)].id ELSE -1]

---------------------------------------------------------------------------
(* Files: faiss.write_index / read_index and pickle.dump / load *)

Absent == [kind |-> "absent", data |-> <<>>]
Torn == [kind |-> "torn", data |-> <<>>]

\* the serialized index: its header, the id map and the stored vectors, flattened
write_index(idx) ==
    [kind |-> "ok",
     data |-> [d |-> DIM, ntotal |-> ntotal(idx),
               id_map |-> [i \in DOMAIN idx.entries |-> idx.entries[i].id],
               xb |-> [j \in 1..(DIM * ntotal(idx)) |->
                          idx.entries[((j - 1) \div DIM) + 1].vec[((j - 1) % DIM) + 1]]]]

read_index(file) ==
    [kind |-> "IndexIDMap",
     entries |-> [i \in 1..file.data.ntotal |->
                     [id |-> file.data.id_map[i],
                      vec |-> [c \in 1..file.data.d |-> file.data.xb[(i - 1) * file.data.d + c]]]]]

\* a pickled dict: its items
Pickle(dict) == {<<key, dict[key]>> : key \in DOMAIN dict}
Unpickle(items) ==
    [key \in {it[1] : it \in items} |-> (CHOOSE it \in items : it[1] = key)[2]]

\* a dump that forgets the back-reference map
pickle_dump_without_id_map(meta, id_map) ==
    [kind |-> "ok", data |-> [metadata |-> Pickle(meta), faiss_id_map |-> {}]]

pickle_dump(meta, id_map) ==
    [kind |-> "ok", data |-> [metadata |-> Pickle(meta), faiss_id_map |-> Pickle(id_map)]]

---------------------------------------------------------------------------
(* app/vectore_store.py: VectorStore *)

Store(idx, meta, id_map) == [index |-> idx, metadata |-> meta, doc_id_by_faiss_id |-> id_map]

Self == Store(index, metadata, doc_id_by_faiss_id)

\* __init__ and _load_or_initialize_index: the store built over the two files.
\* Any exception is caught and printed, leaving what was assigned before it.
load_or_initialize_index(ifile, mfile) ==
    IF ifile.kind = "torn" THEN Store(NoneIndex, <<>>, <<>>)
    ELSE LET idx == IF ifile.kind = "ok" THEN read_index(ifile) ELSE NewIndex
         IN  IF mfile.kind = "ok"
             THEN Store(idx, Unpickle(mfile.data.metadata), Unpickle(mfile.data.faiss_id_map))
             ELSE Store(idx, <<>>, <<>>)

\* get_file_hash: SHA-256 of the bytes at file_path
get_file_hash(bytes) == <<"sha256", bytes>>

generate_faiss_ids(idx, count) == [i \in 1..count |-> ntotal(idx) + i - 1]

\* for fid in faiss_ids: self.doc_id_by_faiss_id[fid] = doc_id
set_back_references(id_map, faiss_ids, doc_id) ==
    [fid \in DOMAIN id_map \cup Range(faiss_ids) |->
        IF fid \in Range(faiss_ids) THEN doc_id ELSE id_map[fid]]

DocumentRecord(content_hash, content, chunks, faiss_ids) ==
    [content_hash |-> content_hash, content |-> content, chunks |-> chunks,
     faiss_ids |-> faiss_ids]

\* a record write that keeps the ids of the record it replaces
set_record_keeping_ids(meta, doc_id, rec) ==
    [d \in DOMAIN meta \cup {doc_id} |->
        IF d # doc_id THEN meta[d]
        ELSE IF d \in DOMAIN meta
             THEN [rec EXCEPT !.faiss_ids = meta[d].faiss_ids \o @]
             ELSE rec]

\* self.metadata[doc_id] = {...}
set_record(meta, doc_id, rec) ==
    [d \in DOMAIN meta \cup {doc_id} |-> IF d = doc_id THEN rec ELSE meta[d]]

\* the in-memory mutation of upsert, lines 94-105
upsert_mutation(s, doc_id, content_hash, content, chunks, embeddings) ==
    LET faiss_ids == generate_faiss_ids(s.index, Len(embeddings))
    IN  Store(add_with_ids(s.index, embeddings, faiss_ids),
              set_record(s.metadata, doc_id,
                         DocumentRecord(content_hash, content, chunks, faiss_ids)),
              set_back_references(s.doc_id_by_faiss_id, faiss_ids, doc_id))

\* an upsert that writes the record before it embeds the chunks
state_at_encode_record_first(s, doc_id, content_hash, content, chunks) ==
    Store(s.index,
          set_record(s.metadata, doc_id, DocumentRecord(content_hash, content, chunks, <<>>)),
          s.doc_id_by_faiss_id)

\* the store as an exception raised by chunk_text or model.encode leaves it:
\* nothing of self is assigned before line 96
state_at_encode(s, doc_id, content_hash, content, chunks) == s

\* save(): the two files after the call; `fault` names where it failed
SaveFaults == {"none", "write_index", "write_index_torn", "open_meta", "dump_meta"}

\* a save that never writes the index file
save_index_file_stale(s, ifile, fault) == ifile

\* a save that never writes the metadata file
save_meta_file_stale(s, mfile, fault) == mfile

save_index_file(s, ifile, fault) ==
    CASE s.index.kind = "None" -> ifile
      [] fault = "write_index" -> ifile
      [] fault = "write_index_torn" -> Torn
      [] OTHER -> write_index(s.index)

save_meta_file(s, mfile, fault) ==
    CASE s.index.kind = "None" -> mfile
      [] fault \in {"write_index", "write_index_torn", "open_meta"} -> mfile
      [] fault = "dump_meta" -> Torn
      [] OTHER -> pickle_dump(s.metadata, s.doc_id_by_faiss_id)

save_raises(s, fault) == s.index.kind = "None" \/ fault # "none"

\* search(query, k): the doc_id of every result, in order
RECURSIVE resolve_hits(_, _, _)
resolve_hits(s, hits, results) ==
    IF hits = <<>> THEN results
    ELSE LET idx == Head(hits)
         IN  IF idx = -1 THEN resolve_hits(s, Tail(hits), results)
             ELSE IF idx \notin DOMAIN s.doc_id_by_faiss_id
                     \/ s.doc_id_by_faiss_id[idx] \notin DOMAIN s.metadata
                  THEN resolve_hits(s, Tail(hits), results)
                  ELSE resolve_hits(s, Tail(hits),
                                    Append(results, s.doc_id_by_faiss_id[idx]))

search(s, q, k) == resolve_hits(s, index_search(s.index, encode_query[q], k), <<>>)

---------------------------------------------------------------------------
(* The calls, one action each *)

Threads == {"t1", "t2"}
Idle == [pc |-> "idle", doc |-> "", hash |-> <<"sha256", NoFile>>, content |-> "",
         faiss_ids |-> <<>>, i |-> 0]

IdleReader == [pc |-> "idle", q |-> "", k |-> 0, hits |-> <<>>, i |-> 0, results |-> <<>>]
IdleChunker == [pc |-> "idle", text |-> "", max_tokens |-> 0, overlap |-> 0,
                words |-> <<>>, start |-> 0, chunks |-> <<>>]
NoRun == [outcome |-> "none", docs |-> <<>>, context |-> "", llm_calls |-> 0,
          source_files |-> <<>>]

\* updated_vector_store.VectorStore() where no file exists, lines 59-66
NewPositional ==
    [index |-> [kind |-> "IndexFlatL2", entries |-> <<>>], metadata |-> <<>>,
     doc_id_by_vector_idx |-> <<>>,
     index_file |-> Absent, meta_file |-> Absent, vector_map_file |-> Absent,
     op |-> "init", outcome |-> "Constructed", hits |-> <<>>, results |-> <<>>, upserts |-> 0]

NoCommit == "none"
IdleSync == [pc |-> "idle", commit_file |-> NoCommit, latest_sha |-> NoCommit,
             vs |-> "none", changed_files |-> <<>>, deleted_files |-> <<>>,
             todo |-> <<>>, outcome |-> "none"]

Requests == {"r1", "r2"}
\* a request that has not entered ingest_changed_files: no store built, no lists
IdleRequest == [pc |-> "idle", index |-> NoneIndex, metadata |-> <<>>,
                doc_id_by_faiss_id |-> <<>>, latest_sha |-> "none",
                changed_files |-> <<>>, deleted_files |-> <<>>, todo |-> <<>>,
                outcome |-> "none"]

Call(op, doc, hash, content, outcome, ids, hits, results) ==
    [op |-> op, doc |-> doc, hash |-> hash, content |-> content, outcome |-> outcome,
     ids |-> ids, hits |-> hits, results |-> results]

NoHash == <<"sha256", NoFile>>

Init ==
    /\ index = NewIndex
    /\ metadata = <<>>
    /\ doc_id_by_faiss_id = <<>>
    /\ index_file = Absent
    /\ meta_file = Absent
    /\ last = Call("init", "", NoHash, "", "Constructed", <<>>, <<>>, <<>>)
    /\ max_assigned = -1
    /\ faults = 0
    /\ upserts = 0
    /\ threads = [t \in Threads |-> Idle]
    /\ reader = IdleReader
    /\ chunker = IdleChunker
    /\ rag = NoRun
    /\ positional = NewPositional
    /\ sync = IdleSync
    /\ stores = [r \in Requests |-> IdleRequest]

\* a call that raises before it assigns anything, or returns early
Keep(op, doc, hash, content, outcome) ==
    /\ last' = Call(op, doc, hash, content, outcome, <<>>, <<>>, <<>>)
    /\ UNCHANGED <<index, metadata, doc_id_by_faiss_id, index_file, meta_file,
                   max_assigned, faults, upserts, threads, reader, chunker, rag, positional, sync, stores>>

\* the faults save() may meet now
Faults == IF faults < MaxFaults THEN SaveFaults ELSE {"none"}

CountFault(fault) == faults' = IF fault = "none" THEN faults ELSE faults + 1

\* VectorStore(): a request, or the process restarted, builds a store over the files
NewStore ==
    LET s == load_or_initialize_index(index_file, meta_file)
    IN  /\ index' = s.index
        /\ metadata' = s.metadata
        /\ doc_id_by_faiss_id' = s.doc_id_by_faiss_id
        /\ last' = Call("load", "", NoHash, "", "Constructed", <<>>, <<>>, <<>>)
        /\ UNCHANGED <<index_file, meta_file, max_assigned, faults, upserts, threads, reader, chunker, rag, positional, sync, stores>>

\* a skip test that looks at the doc_id alone
unchanged_hash_any_version(doc_id, content_hash) == doc_id \in DOMAIN metadata

\* the skip test of upsert, lines 84-86
unchanged_hash(doc_id, content_hash) ==
    doc_id \in DOMAIN metadata /\ metadata[doc_id].content_hash = content_hash

\* upsert(doc_id, file_path, content) when open(file_path) raises
UpsertNoFile(doc_id) ==
    Keep("upsert", "", NoHash, "", "FileNotFoundError")

\* upsert(doc_id, file_path, content) when the stored hash equals the file's
UpsertSkip(doc_id, bytes, content) ==
    /\ unchanged_hash(doc_id, get_file_hash(bytes))
    /\ Keep("upsert", doc_id, get_file_hash(bytes), content, "Skipped")

\* upsert(doc_id, file_path, content) when model.encode raises
UpsertEncodeFails(doc_id, bytes, content) ==
    LET content_hash == get_file_hash(bytes)
        s == state_at_encode(Self, doc_id, content_hash, content, chunk_text_default[content])
    IN  /\ ~unchanged_hash(doc_id, content_hash)
        /\ index' = s.index
        /\ metadata' = s.metadata
        /\ doc_id_by_faiss_id' = s.doc_id_by_faiss_id
        /\ last' = Call("upsert", "", NoHash, "", "ProviderError", <<>>, <<>>, <<>>)
        /\ UNCHANGED <<index_file, meta_file, max_assigned, faults, upserts, threads, reader, chunker, rag, positional, sync, stores>>

\* upsert past the embedding call, when self.index is None: index.ntotal raises
UpsertNoIndex(doc_id, bytes) ==
    /\ ~unchanged_hash(doc_id, get_file_hash(bytes))
    /\ index.kind = "None"
    /\ Keep("upsert", "", NoHash, "", "AttributeError")

\* upsert of a content without words: add_with_ids raises on the empty array
UpsertNoChunks(doc_id, bytes, content) ==
    /\ ~unchanged_hash(doc_id, get_file_hash(bytes))
    /\ index.kind # "None"
    /\ Len(encode_default[content]) = 0
    /\ Keep("upsert", "", NoHash, "", "ValueError")

\* upsert(doc_id, file_path, content) that reaches the mutation and save()
Upsert(doc_id, bytes, content) ==
    LET content_hash == get_file_hash(bytes)
        chunks == chunk_text_default[content]
        embeddings == encode_default[content]
        s == upsert_mutation(Self, doc_id, content_hash, content, chunks, embeddings)
        faiss_ids == s.metadata[doc_id].faiss_ids
    IN  /\ ~unchanged_hash(doc_id, content_hash)
        /\ index.kind # "None"
        /\ Len(embeddings) > 0
        /\ upserts < MaxUpserts
        /\ \E fault \in Faults :
            /\ index' = s.index
            /\ metadata' = s.metadata
            /\ doc_id_by_faiss_id' = s.doc_id_by_faiss_id
            /\ index_file' = save_index_file(s, index_file, fault)
            /\ meta_file' = save_meta_file(s, meta_file, fault)
            /\ max_assigned' = IF faiss_ids[Len(faiss_ids)] > max_assigned
                               THEN faiss_ids[Len(faiss_ids)] ELSE max_assigned
            /\ upserts' = upserts + 1
            /\ UNCHANGED <<threads, reader, chunker, rag, positional, sync, stores>>
            /\ CountFault(fault)
            /\ last' = Call("upsert", doc_id, content_hash, content,
                            IF save_raises(s, fault) THEN "PersistenceError"
                            ELSE IF doc_id \in DOMAIN metadata THEN "Updated"
                            ELSE "Inserted",
                            faiss_ids, <<>>, <<>>)

\* save() called again by the caller of an upsert whose save() raised
Save ==
    /\ index_file' = save_index_file(Self, index_file, "none")
    /\ meta_file' = save_meta_file(Self, meta_file, "none")
    /\ last' = Call("save", "", NoHash, "",
                    IF save_raises(Self, "none") THEN "PersistenceError" ELSE "Saved",
                    <<>>, <<>>, <<>>)
    /\ UNCHANGED <<index, metadata, doc_id_by_faiss_id, max_assigned, faults, upserts, threads, reader, chunker, rag, positional, sync, stores>>

\* search(query, k)
Search(q, k) ==
    /\ last' = IF index.kind = "None"
               THEN Call("search", "", NoHash, "", "AttributeError", <<>>, <<>>, <<>>)
               ELSE Call("search", "", NoHash, "", "Found", <<>>,
                         index_search(index, encode_query[q], k), search(Self, q, k))
    /\ UNCHANGED <<index, metadata, doc_id_by_faiss_id, index_file, meta_file,
                   max_assigned, faults, upserts, threads, reader, chunker, rag, positional, sync, stores>>

\* vs.remove_document(path): VectorStore defines no such method
RemoveDocument(doc_id) ==
    Keep("remove_document", doc_id, NoHash, "", "AttributeError")

Next ==
    \/ NewStore
    \/ \E d \in DocIds : UpsertNoFile(d)
    \/ \E d \in DocIds, b \in FileVersions, c \in Contents : UpsertSkip(d, b, c)
    \/ \E d \in DocIds, b \in FileVersions, c \in Contents : UpsertEncodeFails(d, b, c)
    \/ \E d \in DocIds, b \in FileVersions : UpsertNoIndex(d, b)
    \/ \E d \in DocIds, b \in FileVersions, c \in Contents : UpsertNoChunks(d, b, c)
    \/ \E d \in DocIds, b \in FileVersions, c \in Contents : Upsert(d, b, c)
    \/ Save
    \/ \E q \in Queries, k \in Ks : Search(q, k)
    \/ \E d \in DocIds : RemoveDocument(d)

Spec == Init /\ [][Next]_vars

---------------------------------------------------------------------------
(* Two threads in upsert on the same store, each with a doc_id of its own.      *)
(* VectorStore takes no lock: the threads interleave between the statements of *)
(* upsert and save, and between the iterations of the loop of lines 97-98.     *)

DocOf(t) == IF t = "t1" THEN "d1" ELSE "d2"

At(t, pc) == threads[t].pc = pc

Goto(t, pc) == threads' = [threads EXCEPT ![t].pc = pc]

StoreKept == UNCHANGED <<index, metadata, doc_id_by_faiss_id, index_file, meta_file>>
HistoryKept == UNCHANGED <<last, max_assigned, faults, upserts, reader, chunker, rag, positional, sync, stores>>

\* lines 82-90: hash the file and test for a skip
T_Hash(t, bytes, content) ==
    /\ At(t, "idle")
    /\ content # EmptyDoc
    /\ threads' = [threads EXCEPT ![t] =
            [pc |-> IF unchanged_hash(DocOf(t), get_file_hash(bytes)) THEN "done" ELSE "encode",
             doc |-> DocOf(t), hash |-> get_file_hash(bytes), content |-> content,
             faiss_ids |-> <<>>, i |-> 0]]
    /\ StoreKept /\ HistoryKept

\* lines 92-93: chunk and embed; touches nothing of the store
T_Encode(t) ==
    /\ At(t, "encode")
    /\ Goto(t, "generate_ids")
    /\ StoreKept /\ HistoryKept

\* line 94: faiss_ids = self._generate_faiss_ids(len(embeddings))
T_GenerateIds(t) ==
    /\ At(t, "generate_ids")
    /\ threads' = [threads EXCEPT
            ![t].faiss_ids = generate_faiss_ids(index, Len(encode_default[threads[t].content])),
            ![t].pc = "add"]
    /\ StoreKept /\ HistoryKept

\* line 96: self.index.add_with_ids(embeddings, faiss_ids)
T_Add(t) ==
    /\ At(t, "add")
    /\ index' = add_with_ids(index, encode_default[threads[t].content], threads[t].faiss_ids)
    /\ threads' = [threads EXCEPT ![t].pc = "back_reference", ![t].i = 1]
    /\ UNCHANGED <<metadata, doc_id_by_faiss_id, index_file, meta_file>>
    /\ HistoryKept

\* lines 97-98, one iteration: self.doc_id_by_faiss_id[fid] = doc_id
T_BackReference(t) ==
    /\ At(t, "back_reference")
    /\ doc_id_by_faiss_id' = set_back_references(doc_id_by_faiss_id,
                                                 <<threads[t].faiss_ids[threads[t].i]>>,
                                                 threads[t].doc)
    /\ threads' = [threads EXCEPT
            ![t].i = @ + 1,
            ![t].pc = IF threads[t].i = Len(threads[t].faiss_ids) THEN "record" ELSE @]
    /\ UNCHANGED <<index, metadata, index_file, meta_file>>
    /\ HistoryKept

\* lines 100-105: self.metadata[doc_id] = {...}
T_Record(t) ==
    /\ At(t, "record")
    /\ metadata' = set_record(metadata, threads[t].doc,
                              DocumentRecord(threads[t].hash, threads[t].content,
                                             chunk_text_default[threads[t].content],
                                             threads[t].faiss_ids))
    /\ Goto(t, "write_index")
    /\ UNCHANGED <<index, doc_id_by_faiss_id, index_file, meta_file>>
    /\ HistoryKept

\* save(), line 135: faiss.write_index(self.index, self.index_path)
T_WriteIndex(t) ==
    /\ At(t, "write_index")
    /\ index_file' = write_index(index)
    /\ Goto(t, "write_meta")
    /\ UNCHANGED <<index, metadata, doc_id_by_faiss_id, meta_file>>
    /\ HistoryKept

\* save(), lines 136-140: pickle.dump of the records and the back-reference map
T_WriteMeta(t) ==
    /\ At(t, "write_meta")
    /\ meta_file' = pickle_dump(metadata, doc_id_by_faiss_id)
    /\ Goto(t, "done")
    /\ UNCHANGED <<index, metadata, doc_id_by_faiss_id, index_file>>
    /\ HistoryKept

NextConc ==
    \E t \in Threads :
        \/ \E b \in FileVersions, c \in Contents : T_Hash(t, b, c)
        \/ T_Encode(t)
        \/ T_GenerateIds(t)
        \/ T_Add(t)
        \/ T_BackReference(t)
        \/ T_Record(t)
        \/ T_WriteIndex(t)
        \/ T_WriteMeta(t)

SpecConc == Init /\ [][NextConc]_vars

---------------------------------------------------------------------------
(* A thread in search on the store while another thread is in upsert. search   *)
(* reads self.index, self.doc_id_by_faiss_id and self.metadata with no lock.   *)

Writer == "t1"

ReaderOnly ==
    UNCHANGED <<index, metadata, doc_id_by_faiss_id, index_file, meta_file, last,
                max_assigned, faults, upserts, threads, chunker, rag, positional, sync, stores>>

\* lines 116-119: encode the query, index.search, results = []
R_Search(q, k) ==
    /\ reader.pc = "idle"
    /\ reader' = [pc |-> "resolve", q |-> q, k |-> k,
                  hits |-> index_search(index, encode_query[q], k), i |-> 1,
                  results |-> <<>>]
    /\ ReaderOnly

\* lines 120-131, one iteration: resolve the hit to its document, or skip it
R_Resolve ==
    /\ reader.pc = "resolve"
    /\ reader.i <= Len(reader.hits)
    /\ reader' = [reader EXCEPT
            !.i = @ + 1,
            !.results = resolve_hits(Self, <<reader.hits[reader.i]>>, @)]
    /\ ReaderOnly

\* line 132: return results
R_Return ==
    /\ reader.pc = "resolve"
    /\ reader.i > Len(reader.hits)
    /\ reader' = [reader EXCEPT !.pc = "returned"]
    /\ ReaderOnly

NextRead ==
    \/ \E b \in FileVersions, c \in Contents : T_Hash(Writer, b, c)
    \/ T_Encode(Writer)
    \/ T_GenerateIds(Writer)
    \/ T_Add(Writer)
    \/ T_BackReference(Writer)
    \/ T_Record(Writer)
    \/ T_WriteIndex(Writer)
    \/ T_WriteMeta(Writer)
    \/ \E q \in Queries, k \in Ks : R_Search(q, k)
    \/ R_Resolve
    \/ R_Return

SpecRead == Init /\ [][NextRead]_vars

---------------------------------------------------------------------------
(* chunk_text(text, max_tokens, overlap), one iteration of its loop at a time *)

Alphabet == {" ", "a", "b"}

\* the texts of at most n characters
RECURSIVE Texts(_)
Texts(n) ==
    IF n = 0 THEN {""}
    ELSE LET shorter == Texts(n - 1)
         IN  shorter \cup {t \o c : t \in {x \in shorter : Len(x) = n - 1}, c \in Alphabet}

ChunkerOnly ==
    UNCHANGED <<index, metadata, doc_id_by_faiss_id, index_file, meta_file, last,
                max_assigned, faults, upserts, threads, reader, rag, positional, sync, stores>>

\* lines 57-59: words = text.split(); chunks = []; start = 0
ChunkCall(text, max_tokens, overlap) ==
    /\ chunker.pc = "idle"
    /\ chunker' = [pc |-> "loop", text |-> text, max_tokens |-> max_tokens,
                   overlap |-> overlap, words |-> split(text), start |-> 0, chunks |-> <<>>]
    /\ ChunkerOnly

\* lines 61-64: one iteration of the while loop
ChunkAppend ==
    /\ chunker.pc = "loop"
    /\ chunker.start < Len(chunker.words)
    /\ Len(chunker.chunks) < MaxChunks
    /\ chunker' = [chunker EXCEPT
            !.chunks = Append(@, join(Slice(chunker.words, chunker.start,
                                            chunker.start + chunker.max_tokens))),
            !.start = @ + (chunker.max_tokens - chunker.overlap)]
    /\ ChunkerOnly

\* lines 61 and 66: the loop test fails; return chunks
ChunkReturn ==
    /\ chunker.pc = "loop"
    /\ ~(chunker.start < Len(chunker.words))
    /\ chunker' = [chunker EXCEPT !.pc = "returned"]
    /\ ChunkerOnly

NextChunk ==
    \/ \E text \in Texts(MaxTextLen), max_tokens \in 1..MaxTokensArg,
          overlap \in 0..(MaxTokensArg + 1) : ChunkCall(text, max_tokens, overlap)
    \/ ChunkAppend
    \/ ChunkReturn

SpecChunk == Init /\ [][NextChunk]_vars

---------------------------------------------------------------------------
(* app/rag.py: RAGPipeline.run over the store *)

\* str(n) for a result number
Digit(n) == SubSeq("123456789", n, n)

\* line 109: "\n".join([f"[{i+1}] {doc['content']}" for i, doc in enumerate(docs)])
RECURSIVE context_lines(_, _, _)
context_lines(s, docs, n) ==
    IF n > Len(docs) THEN ""
    ELSE (IF n = 1 THEN "" ELSE "\n")
         \o "[" \o Digit(n) \o "] " \o s.metadata[docs[n]].content
         \o context_lines(s, docs, n + 1)

\* a context that is never empty
context_or_placeholder(s, docs) ==
    IF docs = <<>> THEN "(no context)" ELSE context_lines(s, docs, 1)

context_of(s, docs) == context_lines(s, docs, 1)

\* the orders in which a set may be listed
Listings(S) ==
    {f \in [1..Cardinality(S) -> S] : \A i, j \in 1..Cardinality(S) : i # j => f[i] # f[j]}

\* source_files built as a list, one entry per result
source_files_per_result(docs) == {docs}

\* line 158: list({doc["doc_id"] for doc in docs}), in whatever order the set gives
source_files_of(docs) == Listings(Range(docs))

LlmOutcomes == {"answer", "error"}

\* run(query, k): lines 104-159
Run(q, k, llm) ==
    /\ IF index.kind = "None"
       THEN rag' = [outcome |-> "AttributeError", docs |-> <<>>, context |-> "",
                    llm_calls |-> 0, source_files |-> <<>>]
       ELSE LET docs == search(Self, q, k)
            IN  IF llm = "error"
                THEN rag' = [outcome |-> "ProviderError", docs |-> docs,
                             context |-> context_of(Self, docs), llm_calls |-> 1,
                             source_files |-> <<>>]
                ELSE \E listing \in source_files_of(docs) :
                        rag' = [outcome |-> "Answered", docs |-> docs,
                                context |-> context_of(Self, docs), llm_calls |-> 1,
                                source_files |-> listing]
    /\ UNCHANGED <<index, metadata, doc_id_by_faiss_id, index_file, meta_file, last,
                   max_assigned, faults, upserts, threads, reader, chunker, positional,
                   sync, stores>>

NextRag ==
    \/ NewStore
    \/ \E d \in DocIds, b \in FileVersions, c \in Contents : Upsert(d, b, c)
    \/ \E q \in Queries, k \in Ks, llm \in LlmOutcomes : Run(q, k, llm)

SpecRag == Init /\ [][NextRag]_vars

---------------------------------------------------------------------------
(* app/updated_vector_store.py: the VectorStore that keeps a list of doc_ids   *)
(* by vector position. IndexFlatL2 labels a vector with its position.          *)

PositionalOnly ==
    UNCHANGED <<index, metadata, doc_id_by_faiss_id, index_file, meta_file, last,
                max_assigned, faults, upserts, threads, reader, chunker, rag, sync, stores>>

\* list[idx] as Python reads it for idx < len(list): a negative idx counts from
\* the end
ListAt(list, idx) == IF idx < 0 THEN list[Len(list) + idx + 1] ELSE list[idx + 1]

\* lines 180-189: the doc_id of every result
RECURSIVE positional_resolve(_, _, _)
positional_resolve(p, hits, results) ==
    IF hits = <<>> THEN results
    ELSE LET idx == Head(hits)
         IN  IF idx < Len(p.doc_id_by_vector_idx)
                /\ -idx <= Len(p.doc_id_by_vector_idx)
                /\ ListAt(p.doc_id_by_vector_idx, idx) \in DOMAIN p.metadata
             THEN positional_resolve(p, Tail(hits),
                                     Append(results, ListAt(p.doc_id_by_vector_idx, idx)))
             ELSE positional_resolve(p, Tail(hits), results)

\* __init__, lines 64-75: a store over the three files
P_NewStore ==
    /\ positional' = [positional EXCEPT
            !.index = IF positional.index_file.kind = "ok"
                      THEN [read_index(positional.index_file) EXCEPT !.kind = "IndexFlatL2"]
                      ELSE NewPositional.index,
            !.metadata = IF positional.meta_file.kind = "ok"
                         THEN Unpickle(positional.meta_file.data) ELSE <<>>,
            !.doc_id_by_vector_idx = IF positional.vector_map_file.kind = "ok"
                                     THEN positional.vector_map_file.data ELSE <<>>,
            !.op = "load", !.outcome = "Constructed", !.hits = <<>>, !.results = <<>>]
    /\ PositionalOnly

\* upsert, lines 102-108: the stored hash equals the file's
P_UpsertSkip(doc_id, bytes) ==
    /\ doc_id \in DOMAIN positional.metadata
    /\ positional.metadata[doc_id].content_hash = get_file_hash(bytes)
    /\ positional' = [positional EXCEPT !.op = "upsert", !.outcome = "Skipped",
                                        !.hits = <<>>, !.results = <<>>]
    /\ PositionalOnly

\* upsert, lines 102-127, and save, lines 144-148
P_Upsert(doc_id, bytes, content) ==
    LET chunks == chunk_text_default[content]
        embeddings == encode_default[content]
        idx == ntotal(positional.index)
        added == add_with_ids(positional.index, embeddings,
                              generate_faiss_ids(positional.index, Len(embeddings)))
        ids == positional.doc_id_by_vector_idx \o [i \in 1..Len(embeddings) |-> doc_id]
        meta == set_record(positional.metadata, doc_id,
                           [index |-> idx, content_hash |-> get_file_hash(bytes),
                            content |-> content, chunks |-> chunks])
    IN  /\ ~(doc_id \in DOMAIN positional.metadata
             /\ positional.metadata[doc_id].content_hash = get_file_hash(bytes))
        /\ positional.upserts < MaxUpserts
        /\ positional' =
              IF Len(embeddings) = 0
              THEN [positional EXCEPT !.op = "upsert", !.outcome = "ValueError",
                                      !.hits = <<>>, !.results = <<>>]
              ELSE [index |-> added, metadata |-> meta, doc_id_by_vector_idx |-> ids,
                    index_file |-> write_index(added),
                    meta_file |-> [kind |-> "ok", data |-> Pickle(meta)],
                    vector_map_file |-> [kind |-> "ok", data |-> ids],
                    op |-> "upsert",
                    outcome |-> IF doc_id \in DOMAIN positional.metadata
                                THEN "Updated" ELSE "Inserted",
                    hits |-> <<>>, results |-> <<>>, upserts |-> positional.upserts + 1]
        /\ PositionalOnly

\* search, lines 178-190
P_Search(q, k) ==
    LET hits == index_search(positional.index, encode_query[q], k)
    IN  /\ positional' = [positional EXCEPT
                !.op = "search", !.outcome = "Found", !.hits = hits,
                !.results = positional_resolve(positional, hits, <<>>)]
        /\ PositionalOnly

NextPositional ==
    \/ P_NewStore
    \/ \E d \in DocIds, b \in FileVersions : P_UpsertSkip(d, b)
    \/ \E d \in DocIds, b \in FileVersions, c \in Contents : P_Upsert(d, b, c)
    \/ \E q \in Queries, k \in Ks : P_Search(q, k)

SpecPositional == Init /\ [][NextPositional]_vars

---------------------------------------------------------------------------
(* app/ingest_github_repo.py: ingest_changed_files, one loop iteration at a    *)
(* time. The repository is always the same one; its commits and the files a    *)
(* commit changed are the answers of the GitHub API.                           *)

Shas == {"c1", "c2"}

\* what the loop of lines 76-100 meets for a path: an image (skipped), a pdf
\* (line 87 assigns to the read-only text of the response), a fetch that failed
\* or returned no text, or a text
FileKinds == {"image", "pdf", "unfetched", "text"}

\* the lists of at most n files with different paths
RECURSIVE FileLists(_)
FileLists(n) ==
    IF n = 0 THEN {<<>>}
    ELSE LET shorter == FileLists(n - 1)
         IN  shorter \cup
             {Append(l, [path |-> d, kind |-> k]) :
                 l \in {x \in shorter : Len(x) = n - 1}, d \in DocIds, k \in FileKinds}

DistinctPaths(l) == \A i, j \in DOMAIN l : i # j => l[i].path # l[j].path

SyncOnly ==
    UNCHANGED <<index_file, meta_file, last, max_assigned, faults, upserts, threads,
                reader, chunker, rag, positional, stores>>

\* a test that skips whenever any commit is recorded
no_new_commit_any_recorded(recorded, latest_sha) == recorded # NoCommit

\* line 53: state.get("repo") == repo and state.get("commit") == latest_sha
no_new_commit(recorded, latest_sha) == recorded = latest_sha

\* lines 50 and 27: the request for the latest commit fails
SyncLatestFails ==
    /\ sync.pc = "idle"
    /\ sync' = [IdleSync EXCEPT !.commit_file = sync.commit_file, !.outcome = "HTTPError"]
    /\ UNCHANGED <<index, metadata, doc_id_by_faiss_id>>
    /\ SyncOnly

\* lines 50-55: the recorded commit is the latest one; return
SyncNoNewCommit(latest_sha) ==
    /\ sync.pc = "idle"
    /\ no_new_commit(sync.commit_file, latest_sha)
    /\ sync' = [IdleSync EXCEPT !.commit_file = sync.commit_file,
                                !.latest_sha = latest_sha, !.outcome = "NoNewCommit"]
    /\ UNCHANGED <<index, metadata, doc_id_by_faiss_id>>
    /\ SyncOnly

\* lines 50-67: a new commit; build the store and list the files to process
SyncBegin(latest_sha, changed, deleted) ==
    LET s == load_or_initialize_index(index_file, meta_file)
    IN  /\ sync.pc = "idle"
        /\ ~no_new_commit(sync.commit_file, latest_sha)
        /\ DistinctPaths(changed)
        /\ index' = s.index
        /\ metadata' = s.metadata
        /\ doc_id_by_faiss_id' = s.doc_id_by_faiss_id
        /\ sync' = [pc |-> "files", commit_file |-> sync.commit_file,
                    latest_sha |-> latest_sha, vs |-> "constructed",
                    changed_files |-> changed,
                    deleted_files |-> IF sync.commit_file = NoCommit THEN <<>> ELSE deleted,
                    todo |-> changed, outcome |-> "running"]
        /\ SyncOnly

\* lines 71-73: vs.remove_document(path) for a deleted file; VectorStore has no
\* such method, the AttributeError leaves ingest_changed_files
SyncRemoveDeleted ==
    /\ sync.pc = "files"
    /\ sync.deleted_files # <<>>
    /\ sync' = [sync EXCEPT !.pc = "idle", !.outcome = "AttributeError"]
    /\ UNCHANGED <<index, metadata, doc_id_by_faiss_id>>
    /\ SyncOnly

\* lines 76-100, one iteration: an image and a failed fetch are passed over; a
\* pdf raises at line 87 and a text reaches vs.remove_document(path) at line 96,
\* which raises
SyncFile ==
    /\ sync.pc = "files"
    /\ sync.deleted_files = <<>>
    /\ sync.todo # <<>>
    /\ sync' = IF Head(sync.todo).kind \in {"text", "pdf"}
               THEN [sync EXCEPT !.pc = "idle", !.outcome = "AttributeError"]
               ELSE [sync EXCEPT !.todo = Tail(@)]
    /\ UNCHANGED <<index, metadata, doc_id_by_faiss_id>>
    /\ SyncOnly

\* line 102: save_last_commit(repo, latest_sha)
SyncSaveCommit ==
    /\ sync.pc = "files"
    /\ sync.deleted_files = <<>>
    /\ sync.todo = <<>>
    /\ sync' = [sync EXCEPT !.pc = "idle", !.commit_file = sync.latest_sha,
                            !.outcome = "Ingested"]
    /\ UNCHANGED <<index, metadata, doc_id_by_faiss_id>>
    /\ SyncOnly

NextSync ==
    \/ SyncLatestFails
    \/ \E latest_sha \in Shas : SyncNoNewCommit(latest_sha)
    \/ \E latest_sha \in Shas, changed \in FileLists(MaxFiles),
          deleted \in {<<>>} \cup {<<d>> : d \in DocIds} :
            SyncBegin(latest_sha, changed, deleted)
    \/ SyncRemoveDeleted
    \/ SyncFile
    \/ SyncSaveCommit

SpecSync == Init /\ [][NextSync]_vars

---------------------------------------------------------------------------
(* app/api.py: two /ingest or /sync requests side by side, each in its own     *)
(* call of ingest_changed_files with its own VectorStore; they share the index *)
(* file, the metadata file and the last-commit file.                           *)

RequestsOnly ==
    UNCHANGED <<index, metadata, doc_id_by_faiss_id, index_file, meta_file, last,
                max_assigned, faults, upserts, threads, reader, chunker, rag, positional>>

\* the request leaves ingest_changed_files; api.py lines 79-81 and 112-114 turn
\* an exception into {"error": ...}
Finish(r, outcome) ==
    stores' = [stores EXCEPT ![r].pc = "done", ![r].outcome = outcome]

\* lines 50 and 27: the request for the latest commit fails
Q_LatestFails(r) ==
    /\ stores[r].pc = "idle"
    /\ Finish(r, "HTTPError")
    /\ UNCHANGED sync
    /\ RequestsOnly

\* lines 50-55
Q_NoNewCommit(r, latest_sha) ==
    /\ stores[r].pc = "idle"
    /\ no_new_commit(sync.commit_file, latest_sha)
    /\ stores' = [stores EXCEPT ![r].pc = "done", ![r].latest_sha = latest_sha,
                                ![r].outcome = "NoNewCommit"]
    /\ UNCHANGED sync
    /\ RequestsOnly

\* lines 50-67: vs = VectorStore() reads the shared files into the request's own store
Q_Begin(r, latest_sha, changed, deleted) ==
    LET s == load_or_initialize_index(index_file, meta_file)
    IN  /\ stores[r].pc = "idle"
        /\ ~no_new_commit(sync.commit_file, latest_sha)
        /\ DistinctPaths(changed)
        /\ stores' = [stores EXCEPT ![r] =
                [pc |-> "files", index |-> s.index, metadata |-> s.metadata,
                 doc_id_by_faiss_id |-> s.doc_id_by_faiss_id, latest_sha |-> latest_sha,
                 changed_files |-> changed,
                 deleted_files |-> IF sync.commit_file = NoCommit THEN <<>> ELSE deleted,
                 todo |-> changed, outcome |-> "running"]]
        /\ UNCHANGED sync
        /\ RequestsOnly

\* lines 71-73
Q_RemoveDeleted(r) ==
    /\ stores[r].pc = "files"
    /\ stores[r].deleted_files # <<>>
    /\ Finish(r, "AttributeError")
    /\ UNCHANGED sync
    /\ RequestsOnly

\* lines 76-100, one iteration
Q_File(r) ==
    /\ stores[r].pc = "files"
    /\ stores[r].deleted_files = <<>>
    /\ stores[r].todo # <<>>
    /\ IF Head(stores[r].todo).kind \in {"text", "pdf"}
       THEN Finish(r, "AttributeError")
       ELSE stores' = [stores EXCEPT ![r].todo = Tail(@)]
    /\ UNCHANGED sync
    /\ RequestsOnly

\* line 102: the shared last-commit file is overwritten
Q_SaveCommit(r) ==
    /\ stores[r].pc = "files"
    /\ stores[r].deleted_files = <<>>
    /\ stores[r].todo = <<>>
    /\ Finish(r, "Ingested")
    /\ sync' = [sync EXCEPT !.commit_file = stores[r].latest_sha]
    /\ RequestsOnly

NextRequests ==
    \E r \in Requests :
        \/ Q_LatestFails(r)
        \/ \E latest_sha \in Shas : Q_NoNewCommit(r, latest_sha)
        \/ \E latest_sha \in Shas, changed \in FileLists(MaxRequestFiles),
              deleted \in {<<>>} \cup {<<d>> : d \in DocIds} :
                Q_Begin(r, latest_sha, changed, deleted)
        \/ Q_RemoveDeleted(r)
        \/ Q_File(r)
        \/ Q_SaveCommit(r)

SpecRequests == Init /\ [][NextRequests]_vars

---------------------------------------------------------------------------
(* The claims *)

IndexIds(idx) == {idx.entries[i].id : i \in DOMAIN idx.entries}

RecordIds(meta) == UNION {Range(meta[d].faiss_ids) : d \in DOMAIN meta}

RECURSIVE TotalChunks(_, _)
TotalChunks(meta, docs) ==
    IF docs = {} THEN 0
    ELSE LET d == CHOOSE x \in docs : TRUE
         IN  Len(meta[d].chunks) + TotalChunks(meta, docs \ {d})

Committed == {"Inserted", "Updated", "PersistenceError"}

\* C1: after an upsert that updates a document (no storage failure anywhere in
\* the history), the index holds exactly the
\* vectors of the current records: its size is the sum of their chunk counts and
\* its ids are the ids the records list (no id of the old generation is left).
C1_NoLeakedIds ==
    (last.op = "upsert" /\ last.outcome = "Updated" /\ faults = 0) =>
        /\ ntotal(index) = TotalChunks(metadata, DOMAIN metadata)
        /\ IndexIds(index) = RecordIds(metadata)

\* C2: an upsert is skipped only when the stored content hash of the doc_id equals
\* the hash of the file, and the skipped call changes neither the index, the
\* records, the back-reference map nor the two files; an upsert that goes through
\* never finds its hash stored, and inserts exactly when the doc_id was absent.
C2_SkipTouchesNothing ==
    [][/\ (last'.op = "upsert" /\ last'.outcome = "Skipped") =>
            /\ last'.doc \in DOMAIN metadata
            /\ metadata[last'.doc].content_hash = last'.hash
            /\ UNCHANGED <<index, metadata, doc_id_by_faiss_id, index_file, meta_file>>
       /\ (last'.op = "upsert" /\ last'.outcome \in Committed) =>
            /\ ~(last'.doc \in DOMAIN metadata
                 /\ metadata[last'.doc].content_hash = last'.hash)
            /\ (last'.outcome = "Inserted" => last'.doc \notin DOMAIN metadata)
            /\ (last'.outcome = "Updated" => last'.doc \in DOMAIN metadata)
            /\ metadata'[last'.doc].content_hash = last'.hash]_vars

\* C2's case: the same (doc_id, file, content) upserted again and skipped
C2_Witness ==
    /\ last.op = "upsert" /\ last.outcome = "Skipped"
    /\ metadata[last.doc].content_hash = last.hash
    /\ metadata[last.doc].content = last.content
    /\ Len(metadata[last.doc].faiss_ids) = 2

\* C3: no doc_id appears twice in the result list of one search (on a store with
\* no storage failure in its history).
C3_SearchDeduplicated ==
    (last.op = "search" /\ last.outcome = "Found" /\ faults = 0) =>
        \A i, j \in DOMAIN last.results : i # j => last.results[i] # last.results[j]

\* C4: every id _generate_faiss_ids hands out is greater than every id it handed
\* out before.
C4_IdsNeverReused ==
    [][(last'.op = "upsert" /\ last'.outcome \in Committed /\ upserts' = upserts + 1) =>
            \A i \in DOMAIN last'.ids : last'.ids[i] > max_assigned]_vars

\* C5: remove_document of a doc_id that is not indexed returns NotFound.
C5_RemoveAbsentIsNotFound ==
    (last.op = "remove_document" /\ last.doc \notin DOMAIN metadata) =>
        last.outcome = "NotFound"

\* C6: after remove_document(doc_id) on a store with no storage failure in its
\* history, the document has no record, no vector in the index, and no search
\* returns it.
C6_RemoveRetiresDocument ==
    (last.op = "remove_document" /\ faults = 0) =>
        /\ last.doc \notin DOMAIN metadata
        /\ \A v \in IndexIds(index) :
              v \in DOMAIN doc_id_by_faiss_id => doc_id_by_faiss_id[v] # last.doc
        /\ index.kind = "None" \/
              \A q \in Queries, k \in Ks : last.doc \notin Range(search(Self, q, k))

\* C7: after save() has returned normally (on its own or at the end of an upsert),
\* the store a fresh VectorStore builds from the two files has the index
\* contents, the records and the back-reference map of the store that saved, and
\* gives the same results to every search.
C7_RoundTrip ==
    last.outcome \in {"Inserted", "Updated", "Saved"} =>
        LET restored == load_or_initialize_index(index_file, meta_file)
        IN  /\ restored = Self
            /\ \A q \in Queries, k \in Ks : search(restored, q, k) = search(Self, q, k)

\* C7's case: a saved store of two documents, one of them of two chunks
C7_Witness ==
    /\ last.outcome \in {"Updated", "Saved"}
    /\ index_file.kind = "ok" /\ meta_file.kind = "ok"
    /\ ntotal(index) >= 3
    /\ \E d \in DOMAIN metadata : Len(metadata[d].faiss_ids) = 2

\* C8: a store built from the files never holds an inconsistent combination: the
\* ids of the loaded index are those of the loaded back-reference map, and every
\* id a loaded record lists is in the loaded index.
C8_RestoreLoadsWholeSnapshot ==
    (last.op = "load" /\ index.kind # "None") =>
        /\ IndexIds(index) = DOMAIN doc_id_by_faiss_id
        /\ RecordIds(metadata) \subseteq IndexIds(index)

\* C9: an upsert whose hashing or embedding call raises leaves the index, the
\* records, the back-reference map and the files as they were.
C9_FailedEmbeddingChangesNothing ==
    [][(last'.op = "upsert" /\ last'.outcome \in {"FileNotFoundError", "ProviderError"}) =>
            UNCHANGED <<index, metadata, doc_id_by_faiss_id, index_file, meta_file>>]_vars

\* C9's case: the embedding call failed on a store that holds documents
C9_Witness ==
    /\ last.op = "upsert" /\ last.outcome = "ProviderError"
    /\ DOMAIN metadata # {}
    /\ ntotal(index) > 0

\* C10: when two threads have upserted different doc_ids on the same store, the
\* id blocks they were given are disjoint, both records are in the store with all
\* their vectors in the index under ids that refer back to them, and the
\* persisted snapshot restores to that store.
C10_ConcurrentUpsertsSerialized ==
    (\A t \in Threads : At(t, "done")) =>
        /\ Range(threads["t1"].faiss_ids) \cap Range(threads["t2"].faiss_ids) = {}
        /\ \A t \in Threads :
              /\ threads[t].doc \in DOMAIN metadata
              /\ metadata[threads[t].doc].faiss_ids = threads[t].faiss_ids
              /\ \A v \in Range(threads[t].faiss_ids) :
                    /\ v \in IndexIds(index)
                    /\ v \in DOMAIN doc_id_by_faiss_id
                    /\ doc_id_by_faiss_id[v] = threads[t].doc
        /\ ntotal(index) = TotalChunks(metadata, DOMAIN metadata)
        /\ load_or_initialize_index(index_file, meta_file) = Self

\* the words of the chunks, in order
RECURSIVE tokens_of(_)
tokens_of(chunks) ==
    IF chunks = <<>> THEN <<>> ELSE split(Head(chunks)) \o tokens_of(Tail(chunks))

\* C11: chunk_text called with overlap >= max_tokens appends no chunk and does
\* not return a chunk list (it rejects the arguments), and whatever its
\* arguments its loop runs at most once per word of the text.
C11_OverlapRejected ==
    /\ Len(chunker.chunks) <= Len(chunker.words)
    /\ (chunker.pc # "idle" /\ chunker.overlap >= chunker.max_tokens) =>
            chunker.chunks = <<>> /\ chunker.pc # "returned"

\* C12: when chunk_text returns for overlap = 0, the words of its chunks, in
\* order, are the words of the text.
C12_ChunksCoverTokens ==
    (chunker.pc = "returned" /\ chunker.overlap = 0) =>
        tokens_of(chunker.chunks) = split(chunker.text)

\* C12's case: three words cut into chunks of two, the last chunk short
C12_Witness ==
    /\ chunker.pc = "returned" /\ chunker.overlap = 0
    /\ chunker.max_tokens = 2
    /\ Len(split(chunker.text)) = 3
    /\ Len(chunker.chunks) = 2

\* C13: a search returns no more results than the index holds vectors and than
\* k, none on an empty index, and one at most per hit that is not the padding -1.
C13_SearchSkipsPadding ==
    (last.op = "search" /\ last.outcome = "Found") =>
        LET live == {i \in DOMAIN last.hits : last.hits[i] # -1}
        IN  /\ Cardinality(live) = (IF ntotal(index) < Len(last.hits)
                                    THEN ntotal(index) ELSE Len(last.hits))
            /\ Len(last.results) <= Cardinality(live)
            /\ (ntotal(index) = 0 => last.results = <<>>)
            /\ (\A i \in live : last.hits[i] \in DOMAIN doc_id_by_faiss_id
                                /\ doc_id_by_faiss_id[last.hits[i]] \in DOMAIN metadata)
                  => Len(last.results) = Cardinality(live)

\* C13's case: a search for more vectors than the index holds
C13_Witness ==
    /\ last.op = "search" /\ last.outcome = "Found"
    /\ ntotal(index) > 0 /\ ntotal(index) < Len(last.hits)
    /\ Len(last.results) = ntotal(index)

\* C16: when an upsert that was not skipped returns normally, the two files hold
\* the index, the records and the back-reference map the store has in memory.
C16_UpsertPersistsBeforeReturn ==
    (last.op = "upsert" /\ last.outcome \in {"Inserted", "Updated"}) =>
        /\ index_file = write_index(index)
        /\ meta_file = pickle_dump(metadata, doc_id_by_faiss_id)
        /\ last.doc \in DOMAIN metadata
        /\ metadata[last.doc].faiss_ids = last.ids

\* C16's case: an upsert returned on a store that held vectors before it
C16_Witness ==
    /\ last.op = "upsert" /\ last.outcome \in {"Inserted", "Updated"}
    /\ ntotal(index) > Len(last.ids)
    /\ index_file.kind = "ok" /\ meta_file.kind = "ok"

\* C17: every record lists as many ids as chunks, and every id it lists is in
\* the index.
C17_RecordIdsLive ==
    \A d \in DOMAIN metadata :
        /\ Len(metadata[d].chunks) = Len(metadata[d].faiss_ids)
        /\ Range(metadata[d].faiss_ids) \subseteq IndexIds(index)

\* C17's case: two records, one of them of two chunks
C17_Witness ==
    /\ Cardinality(DOMAIN metadata) = 2
    /\ \E d \in DOMAIN metadata : Len(metadata[d].chunks) = 2
    /\ \A d \in DOMAIN metadata : Range(metadata[d].faiss_ids) \subseteq IndexIds(index)

\* C19: a store that was constructed has an index, and neither of its two files
\* was unreadable when it loaded them.
C19_LoadFailureSurfaced ==
    last.op = "load" =>
        /\ index.kind # "None"
        /\ index_file.kind # "torn"
        /\ meta_file.kind # "torn"

\* C20: an upsert whose save() raised leaves the new document in memory (its
\* record, its vectors, its back-references), and a save() that then returns
\* writes that memory to the two files.
C20_FailedSaveKeepsMemory ==
    [][/\ (last'.op = "upsert" /\ last'.outcome = "PersistenceError") =>
            /\ last'.doc \in DOMAIN metadata'
            /\ metadata'[last'.doc].content_hash = last'.hash
            /\ metadata'[last'.doc].faiss_ids = last'.ids
            /\ \A v \in Range(last'.ids) :
                  /\ v \in IndexIds(index')
                  /\ v \in DOMAIN doc_id_by_faiss_id'
                  /\ doc_id_by_faiss_id'[v] = last'.doc
       /\ (last.op = "upsert" /\ last.outcome = "PersistenceError"
           /\ last'.op = "save" /\ last'.outcome = "Saved") =>
            /\ UNCHANGED <<index, metadata, doc_id_by_faiss_id>>
            /\ index_file' = write_index(index)
            /\ meta_file' = pickle_dump(metadata, doc_id_by_faiss_id)
            /\ load_or_initialize_index(index_file', meta_file').metadata[last.doc].content_hash
                  = last.hash]_vars

\* C20's case: the only upsert so far failed in save(), and save() has since
\* returned
C20_Witness ==
    /\ last.op = "save" /\ last.outcome = "Saved"
    /\ upserts = 1 /\ faults = 1
    /\ DOMAIN metadata # {}
    /\ meta_file = pickle_dump(metadata, doc_id_by_faiss_id)

\* C14: a run whose search returned no result calls the generator once, with an
\* empty context, and when the generator answers returns no source.
C14_RunOnEmptyResults ==
    (rag.outcome \in {"Answered", "ProviderError"} /\ rag.docs = <<>>) =>
        /\ rag.llm_calls = 1
        /\ rag.context = ""
        /\ rag.outcome = "Answered" => rag.source_files = <<>>

\* C14's case: a run that answered on a store where the search found nothing
C14_Witness ==
    /\ rag.outcome = "Answered" /\ rag.docs = <<>>
    /\ rag.llm_calls = 1 /\ rag.source_files = <<>>

\* C15: the sources of a run that answered are the doc_ids of the results of its
\* search, each listed once.
C15_SourcesAreResultDocs ==
    rag.outcome = "Answered" =>
        /\ Range(rag.source_files) = Range(rag.docs)
        /\ \A i, j \in DOMAIN rag.source_files :
              i # j => rag.source_files[i] # rag.source_files[j]

\* C15's case: a search that returned two chunks of one document and one of
\* another
C15_Witness ==
    /\ rag.outcome = "Answered"
    /\ Len(rag.docs) > Len(rag.source_files)
    /\ Len(rag.source_files) = 2

\* the store before the writer's upsert
StoreBefore == Store(NewIndex, <<>>, <<>>)

\* C18: the results of a search that ran while one upsert ran are those the
\* search has on the store before the upsert or on the store after it.
C18_SearchSeesNoIntermediateState ==
    (reader.pc = "returned" /\ At(Writer, "done")) =>
        \/ reader.results = search(StoreBefore, reader.q, reader.k)
        \/ reader.results = search(Self, reader.q, reader.k)

\* the first and the last position (from 1) of window number j (from 1) over n
\* words
WindowFirst(j) == (j - 1) * (chunker.max_tokens - chunker.overlap) + 1
WindowLast(j) ==
    LET end == (j - 1) * (chunker.max_tokens - chunker.overlap) + chunker.max_tokens
    IN  IF end < Len(chunker.words) THEN end ELSE Len(chunker.words)

\* C21: when chunk_text returns for overlap < max_tokens, chunk number j holds
\* the words of window j, every chunk but the last has max_tokens words, and two
\* consecutive chunks share overlap words.
C21_ChunkWindows ==
    (chunker.pc = "returned" /\ chunker.overlap < chunker.max_tokens) =>
        \A j \in DOMAIN chunker.chunks :
            /\ split(chunker.chunks[j]) = SubSeq(chunker.words, WindowFirst(j), WindowLast(j))
            /\ j < Len(chunker.chunks) =>
                  /\ Len(split(chunker.chunks[j])) = chunker.max_tokens
                  /\ WindowLast(j) - WindowFirst(j + 1) + 1 = chunker.overlap

\* C22: chunk_text has no chunk for a text without words, and for
\* overlap < max_tokens no chunk it appends is without words.
C22_NoEmptyChunk ==
    /\ chunker.words = <<>> => chunker.chunks = <<>>
    /\ chunker.overlap < chunker.max_tokens =>
          \A j \in DOMAIN chunker.chunks :
              chunker.chunks[j] # "" /\ split(chunker.chunks[j]) # <<>>

\* C22's case: a text that begins and ends with whitespace, cut into two chunks
C22_Witness ==
    /\ chunker.pc = "returned" /\ chunker.overlap < chunker.max_tokens
    /\ Len(chunker.text) >= 3
    /\ CharAt(chunker.text, 1) = " " /\ CharAt(chunker.text, Len(chunker.text)) = " "
    /\ Len(chunker.chunks) >= 2

\* C23: an upsert that finds the doc_id stored under another hash leaves exactly
\* the new hash, content, chunks and ids in its record, none of the ids of the
\* record it replaced, and the other records as they were.
C23_UpdateReplacesRecord ==
    [][(last'.op = "upsert" /\ last'.outcome \in Committed /\ last'.doc \in DOMAIN metadata) =>
            /\ metadata'[last'.doc] =
                  DocumentRecord(last'.hash, last'.content,
                                 chunk_text_default[last'.content], last'.ids)
            /\ Range(metadata'[last'.doc].faiss_ids)
                  \cap Range(metadata[last'.doc].faiss_ids) = {}
            /\ metadata[last'.doc].content_hash # last'.hash
            /\ DOMAIN metadata' = DOMAIN metadata
            /\ \A d \in DOMAIN metadata \ {last'.doc} : metadata'[d] = metadata[d]]_vars

\* C23's case: a document updated from two chunks to one
C23_Witness ==
    /\ last.op = "upsert" /\ last.outcome = "Updated"
    /\ Len(metadata[last.doc].chunks) = 1
    /\ ntotal(index) = 3

\* C24: every hit of a search that resolves to a document is one of the ids the
\* document's record lists (on a store with no storage failure in its history).
C24_NoStaleGeneration ==
    (last.op = "search" /\ last.outcome = "Found" /\ faults = 0) =>
        \A i \in DOMAIN last.hits :
            (/\ last.hits[i] \in DOMAIN doc_id_by_faiss_id
             /\ doc_id_by_faiss_id[last.hits[i]] \in DOMAIN metadata)
            => last.hits[i] \in Range(metadata[doc_id_by_faiss_id[last.hits[i]]].faiss_ids)

\* C25: the keys of the back-reference map are the ids in the index, and the map
\* sends v to d exactly when the record of d lists v (on a store with no storage
\* failure in its history).
C25_BackReferencesAgree ==
    faults = 0 =>
        /\ DOMAIN doc_id_by_faiss_id = IndexIds(index)
        /\ \A v \in DOMAIN doc_id_by_faiss_id, d \in DocIds :
              doc_id_by_faiss_id[v] = d
                 <=> (d \in DOMAIN metadata /\ v \in Range(metadata[d].faiss_ids))

\* C27: when an upsert is skipped (on a store with no storage failure in its
\* history), the content of the stored record is the content the call was given.
C27_SkipOnlySameContent ==
    (last.op = "upsert" /\ last.outcome = "Skipped" /\ faults = 0) =>
        metadata[last.doc].content = last.content

\* C26: in the positional store the list of doc_ids is as long as the index, and
\* a search returns no more results than the index holds vectors, one at most
\* per hit that is not the padding -1.
C26_PositionalSearchSkipsPadding ==
    /\ Len(positional.doc_id_by_vector_idx) = ntotal(positional.index)
    /\ positional.op = "search" =>
          /\ Len(positional.results) <= ntotal(positional.index)
          /\ Len(positional.results)
                <= Cardinality({i \in DOMAIN positional.hits : positional.hits[i] # -1})

\* C28: when ingest_changed_files has recorded the latest commit, every changed
\* file that is not an image is in the store and no deleted file is; and a call
\* that a store call ended with an exception has not changed the recorded commit.
C28_CommitRecordedAfterIngestion ==
    /\ sync.outcome = "Ingested" =>
          /\ sync.commit_file = sync.latest_sha
          /\ \A i \in DOMAIN sync.changed_files :
                sync.changed_files[i].kind # "image"
                   => sync.changed_files[i].path \in DOMAIN metadata
          /\ \A i \in DOMAIN sync.deleted_files :
                sync.deleted_files[i] \notin DOMAIN metadata
    /\ sync.outcome = "AttributeError" => sync.commit_file # sync.latest_sha

\* C29: ingest_changed_files returns at the commit test exactly when the
\* recorded commit is the latest one, and then has built no store and has
\* changed neither the index and metadata files nor the recorded commit.
C29_NoNewCommitChangesNothing ==
    [][/\ (sync'.outcome = "NoNewCommit") =>
            /\ sync.commit_file = sync'.latest_sha
            /\ sync'.commit_file = sync.commit_file
            /\ sync'.vs = "none"
            /\ UNCHANGED <<index, metadata, doc_id_by_faiss_id, index_file, meta_file>>
       /\ (sync.pc = "idle" /\ sync'.outcome = "running") =>
            sync.commit_file # sync'.latest_sha]_vars

\* C29's case: a second sync with no new commit, after one that recorded it
C29_Witness ==
    /\ sync.outcome = "NoNewCommit"
    /\ sync.commit_file \in Shas
    /\ sync.commit_file = sync.latest_sha
    /\ sync.vs = "none"

\* the doc_ids of the persisted snapshot
PersistedDocs ==
    IF meta_file.kind = "ok" THEN {it[1] : it \in meta_file.data.metadata} ELSE {}

====
